---- MODULE Spec2Model ----
(***************************************************************************)
(* Model of the edit-script engines of the Myers-Algorithm repository:     *)
(* the quadratic engine (algorithms/myers.py), the two linear-space        *)
(* engines (algorithms/hirschberg.py) and patch.  Sequences are 1-based    *)
(* here and 0-based in the Python source; a Python index i into a list is  *)
(* read through PyIndex.                                                   *)
(***************************************************************************)
EXTENDS Integers, Sequences, FiniteSets, TLC

\* ------------------------------------------------------------------ bounds
MaxLen == 3
NumSyms == 2

Syms == 1..NumSyms

RECURSIVE SeqsUpTo(_)
SeqsUpTo(n) ==
    IF n = 0 THEN {<<>>}
    ELSE LET S == SeqsUpTo(n - 1)
         IN  S \cup {Append(s, e) : s \in {t \in S : Len(t) = n - 1}, e \in Syms}

Inputs == SeqsUpTo(MaxLen)

\* The longest script a caller hands to patch.
MaxScriptLen == 3

\* The longest script a caller hands to split_into_hunks, and the largest
\* context it asks for.
MaxHunkLen == 8

MaxContext == 1

\* ------------------------------------------------------- edit script model
\* Python's None (EditAction.old_value default, MyersDiff._edit_distance).
None == -1

INSERT == "insert"
DELETE == "delete"
EQUAL == "equal"
REPLACE == "replace"

EditAction(op, value, old_value) ==
    [op |-> op, value |-> value, old_value |-> old_value]

make_insert(value) == EditAction(INSERT, value, None)

\* make_delete building a Replace entry that records the deleted value.
make_delete_as_replace(value) == EditAction(REPLACE, None, value)

make_delete(value) == EditAction(DELETE, value, None)

make_equal(value) == EditAction(EQUAL, value, None)

\* make_replace(new_value, old_value)
make_replace(new_value, old_value) == EditAction(REPLACE, new_value, old_value)

\* The Insert, Delete and Equal entries over the symbols.
PlainEntries ==
    {make_insert(v) : v \in Syms} \cup {make_delete(v) : v \in Syms}
        \cup {make_equal(v) : v \in Syms}

\* The Replace entries over the symbols.
ReplaceEntries == {make_replace(v, w) : v \in Syms, w \in Syms}

\* All scripts of at most n entries drawn from the set entries.
RECURSIVE ScriptsUpTo(_, _)
ScriptsUpTo(n, entries) ==
    IF n = 0 THEN {<<>>}
    ELSE LET S == ScriptsUpTo(n - 1, entries)
         IN  S \cup {Append(s, e) : s \in {t \in S : Len(t) = n - 1}, e \in entries}

\* [make_insert(item) for item in b]
AllInserts(b) == [i \in 1..Len(b) |-> make_insert(b[i])]

\* The delete comprehension building Insert entries.
AllDeletesAsInserts(a) == [i \in 1..Len(a) |-> make_insert(a[i])]

\* [make_delete(item) for item in a]
AllDeletes(a) == [i \in 1..Len(a) |-> make_delete(a[i])]

\* list[i] for a Python int i: a negative index counts from the end.
PyIndex(s, i) == IF i >= 0 THEN s[i + 1] ELSE s[Len(s) + i + 1]

\* list.reverse() / s[::-1]
Reverse(s) == [i \in 1..Len(s) |-> s[Len(s) + 1 - i]]

\* s[lo:hi] for 0 <= lo, hi
Slice(s, lo, hi) ==
    LET h == IF hi > Len(s) THEN Len(s) ELSE hi
    IN  IF lo >= h THEN <<>> ELSE [i \in 1..(h - lo) |-> s[lo + i]]

\* dict.get(k, 0)
DictGet(v, k) == IF k \in DOMAIN v THEN v[k] ELSE 0

\* v[k] = x on a dict
DictSet(v, k, x) == [j \in (DOMAIN v) \cup {k} |-> IF j = k THEN x ELSE v[j]]

\* ------------------------------------- find_middle_snake of myers.py
\* The start x on diagonal k at depth d, from dict v.
FmsStart(v, k, d) ==
    IF k = -d \/ (k # d /\ DictGet(v, k - 1) < DictGet(v, k + 1))
    THEN DictGet(v, k + 1)
    ELSE DictGet(v, k - 1) + 1

\* while x < n and y < m and original[x] == modified[y]
RECURSIVE FmsSlide(_, _, _, _)
FmsSlide(a, b, x, y) ==
    IF x < Len(a) /\ y < Len(b) /\ PyIndex(a, x) = PyIndex(b, y)
    THEN FmsSlide(a, b, x + 1, y + 1)
    ELSE x

\* while x < n and y < m and original[n - 1 - x] == modified[m - 1 - y]
RECURSIVE FmsSlideRev(_, _, _, _)
FmsSlideRev(a, b, x, y) ==
    IF x < Len(a) /\ y < Len(b)
       /\ PyIndex(a, Len(a) - 1 - x) = PyIndex(b, Len(b) - 1 - y)
    THEN FmsSlideRev(a, b, x + 1, y + 1)
    ELSE x

\* The depth loop (FmsD), the forward diagonal loop (FmsFwd) and the
\* backward one (FmsBwd) of find_middle_snake.
RECURSIVE FmsD(_, _, _, _, _, _, _)
RECURSIVE FmsFwd(_, _, _, _, _, _, _, _)
RECURSIVE FmsBwd(_, _, _, _, _, _, _, _)
FmsD(a, b, x_offset, y_offset, v_forward, v_backward, d) ==
    IF d > (Len(a) + Len(b) + 1) \div 2
    THEN <<0, 0, Len(a), Len(b), Len(a) + Len(b)>>
    ELSE FmsFwd(a, b, x_offset, y_offset, v_forward, v_backward, d, -d)

FmsFwd(a, b, x_offset, y_offset, v_forward, v_backward, d, k) ==
    IF k > d THEN FmsBwd(a, b, x_offset, y_offset, v_forward, v_backward, d, -d)
    ELSE LET n == Len(a)
             m == Len(b)
             delta == n - m
             odd == (delta % 2 # 0)
             x_start == FmsStart(v_forward, k, d)
             y_start == x_start - k
             x == FmsSlide(a, b, x_start, y_start)
             y == x - k
             vf2 == DictSet(v_forward, k, x)
         IN  IF odd /\ k - delta >= -(d - 1) /\ k - delta <= d - 1
                /\ vf2[k] + DictGet(v_backward, delta - k) >= n
             THEN <<x_start + x_offset, y_start + y_offset,
                    x + x_offset, y + y_offset, 2 * d - 1>>
             ELSE FmsFwd(a, b, x_offset, y_offset, vf2, v_backward, d, k + 2)

FmsBwd(a, b, x_offset, y_offset, v_forward, v_backward, d, k) ==
    IF k > d THEN FmsD(a, b, x_offset, y_offset, v_forward, v_backward, d + 1)
    ELSE LET n == Len(a)
             m == Len(b)
             delta == n - m
             odd == (delta % 2 # 0)
             x0 == FmsStart(v_backward, k, d)
             x == FmsSlideRev(a, b, x0, x0 - k)
             y == x - k
             vb2 == DictSet(v_backward, k, x)
         IN  IF ~odd /\ k - delta >= -d /\ k - delta <= d
                /\ vb2[k] + DictGet(v_forward, delta - k) >= n
             THEN <<n - vb2[k] + x_offset, m - (vb2[k] - k) + y_offset,
                    n - x + x_offset, m - y + y_offset, 2 * d>>
             ELSE FmsBwd(a, b, x_offset, y_offset, v_forward, vb2, d, k + 2)

\* find_middle_snake(original, modified, x_offset, y_offset)
find_middle_snake(a, b, x_offset, y_offset) ==
    IF Len(a) = 0 \/ Len(b) = 0
    THEN <<0, 0, 0, 0, Len(a) + Len(b)>>
    ELSE FmsD(a, b, x_offset, y_offset, (1 :> 0), (1 :> 0), 0)

\* ------------------------------------------------------- quadratic engine
\* TakeDown with the comparison of the two neighbours turned around.
TakeDownGreater(v, k, d) ==
    k = -d \/ (k # d /\ DictGet(v, k - 1) > DictGet(v, k + 1))

\* The greedy choice of the start x on diagonal k at depth d
\* (same rule in _find_path and, for the predecessor, in _trace_path).
TakeDown(v, k, d) ==
    k = -d \/ (k # d /\ DictGet(v, k - 1) < DictGet(v, k + 1))

\* Slide with the bound on x one short: the last element is never matched.
RECURSIVE SlideShort(_, _, _, _)
SlideShort(a, b, x, y) ==
    IF x < Len(a) - 1 /\ y < Len(b) /\ PyIndex(a, x) = PyIndex(b, y)
    THEN SlideShort(a, b, x + 1, y + 1)
    ELSE x

\* while x < n and y < m and original[x] == modified[y]: x += 1; y += 1
RECURSIVE Slide(_, _, _, _)
Slide(a, b, x, y) ==
    IF x < Len(a) /\ y < Len(b) /\ PyIndex(a, x) = PyIndex(b, y)
    THEN Slide(a, b, x + 1, y + 1)
    ELSE x

\* One iteration of the inner loop of _find_path: the x stored in v[k].
ExtendDiagonal(a, b, v, k, d) ==
    LET x0 == IF TakeDown(v, k, d) THEN DictGet(v, k + 1)
              ELSE DictGet(v, k - 1) + 1
    IN  Slide(a, b, x0, x0 - k)

\* MyersDiff._find_path: returns the trace and the value left in
\* self._edit_distance (ed0 when the search never assigns it).
RECURSIVE FindPathD(_, _, _, _, _, _)
RECURSIVE FindPathK(_, _, _, _, _, _, _)
FindPathD(a, b, v, trace, d, ed0) ==
    IF d > Len(a) + Len(b)
    THEN [trace |-> trace, edit_distance |-> ed0, v |-> v, stop |-> None]
    ELSE FindPathK(a, b, v, Append(trace, v), d, -d, ed0)

FindPathK(a, b, v, trace, d, k, ed0) ==
    IF k > d
    THEN FindPathD(a, b, v, trace, d + 1, ed0)
    ELSE LET x == ExtendDiagonal(a, b, v, k, d)
             y == x - k
         IN  IF x >= Len(a) /\ y >= Len(b)
             THEN [trace |-> trace, edit_distance |-> d,
                   v |-> DictSet(v, k, x), stop |-> <<x, y>>]
             ELSE FindPathK(a, b, DictSet(v, k, x), trace, d, k + 2, ed0)

\* _find_path with the depth loop starting at 1.
FindPathFromOne(a, b, ed0) == FindPathD(a, b, (1 :> 0), <<>>, 1, ed0)

\* The record also holds the search state v at the return and the point
\* (x, y) that ended the search (None when the loop ran out).
FindPath(a, b, ed0) == FindPathD(a, b, (1 :> 0), <<>>, 0, ed0)

\* while x > prev_x and y > prev_y: x -= 1; y -= 1; append Equal(original[x])
RECURSIVE SlideBack(_, _, _, _, _, _)
SlideBack(a, x, y, prev_x, prev_y, rev) ==
    IF x > prev_x /\ y > prev_y
    THEN SlideBack(a, x - 1, y - 1, prev_x, prev_y,
                   Append(rev, make_equal(PyIndex(a, x - 1))))
    ELSE [x |-> x, y |-> y, rev |-> rev]

\* The loop of MyersDiff._trace_path over d = len(trace)-1 .. 0.
RECURSIVE TracePathLoop(_, _, _, _, _, _, _)
TracePathLoop(a, b, trace, d, x, y, rev) ==
    IF d < 0 THEN rev
    ELSE LET v == trace[d + 1]
             k == x - y
             prev_k == IF TakeDown(v, k, d) THEN k + 1 ELSE k - 1
             prev_x == DictGet(v, prev_k)
             prev_y == prev_x - prev_k
             s == SlideBack(a, x, y, prev_x, prev_y, rev)
         IN  IF d > 0
             THEN IF s.x = prev_x
                  THEN TracePathLoop(a, b, trace, d - 1, s.x, s.y - 1,
                           Append(s.rev, make_insert(PyIndex(b, s.y - 1))))
                  ELSE TracePathLoop(a, b, trace, d - 1, s.x - 1, s.y,
                           Append(s.rev, make_delete(PyIndex(a, s.x - 1))))
             ELSE TracePathLoop(a, b, trace, d - 1, s.x, s.y, s.rev)

\* _trace_path without the final script_reversed.reverse().
TracePathNoReverse(a, b, trace) ==
    TracePathLoop(a, b, trace, Len(trace) - 1, Len(a), Len(b), <<>>)

\* MyersDiff._trace_path
TracePath(a, b, trace) ==
    Reverse(TracePathLoop(a, b, trace, Len(trace) - 1, Len(a), Len(b), <<>>))

\* compute() recording the distance in the `m == 0` early return only.
MyersComputeDeleteCounted(a, b, trace0, ed0) ==
    IF Len(a) = 0 /\ Len(b) = 0
    THEN [script |-> <<>>, trace |-> trace0, edit_distance |-> ed0]
    ELSE IF Len(a) = 0
    THEN [script |-> AllInserts(b), trace |-> trace0, edit_distance |-> ed0]
    ELSE IF Len(b) = 0
    THEN [script |-> AllDeletes(a), trace |-> trace0, edit_distance |-> Len(a)]
    ELSE LET fp == FindPath(a, b, ed0)
         IN  [script |-> TracePath(a, b, fp.trace),
              trace |-> fp.trace, edit_distance |-> fp.edit_distance]

\* compute() without the early returns for empty inputs.
MyersComputeNoShortcut(a, b, trace0, ed0) ==
    LET fp == FindPath(a, b, ed0)
    IN  [script |-> TracePath(a, b, fp.trace),
         trace |-> fp.trace, edit_distance |-> fp.edit_distance]

\* MyersDiff.compute on an instance whose fields are (trace0, ed0):
\* the returned script and the fields afterwards.
MyersCompute(a, b, trace0, ed0) ==
    IF Len(a) = 0 /\ Len(b) = 0
    THEN [script |-> <<>>, trace |-> trace0, edit_distance |-> ed0]
    ELSE IF Len(a) = 0
    THEN [script |-> AllInserts(b), trace |-> trace0, edit_distance |-> ed0]
    ELSE IF Len(b) = 0
    THEN [script |-> AllDeletes(a), trace |-> trace0, edit_distance |-> ed0]
    ELSE LET fp == FindPath(a, b, ed0)
         IN  [script |-> TracePath(a, b, fp.trace),
              trace |-> fp.trace, edit_distance |-> fp.edit_distance]

\* `self._edit_distance or 0`
OrZero(x) == IF x = None \/ x = 0 THEN 0 ELSE x

\* get_edit_distance returning `_edit_distance or 0` without calling
\* compute() first.
MyersGetEditDistanceNoCompute(a, b, trace0, ed0) ==
    [ret |-> OrZero(ed0), trace |-> trace0, edit_distance |-> ed0]

\* MyersDiff.get_edit_distance on an instance whose fields are (trace0, ed0).
MyersGetEditDistance(a, b, trace0, ed0) ==
    LET c == IF ed0 = None THEN MyersCompute(a, b, trace0, ed0)
             ELSE [script |-> <<>>, trace |-> trace0, edit_distance |-> ed0]
    IN  [ret |-> OrZero(c.edit_distance),
         trace |-> c.trace, edit_distance |-> c.edit_distance]

\* diff(original, modified): a fresh MyersDiff, then compute().
diff(a, b) == MyersCompute(a, b, <<>>, None).script

\* edit_distance(original, modified): a fresh MyersDiff, then
\* get_edit_distance().
edit_distance(a, b) == MyersGetEditDistance(a, b, <<>>, None).ret

\* lcs_length(a, b): the Equal entries of diff(a, b), counted as every
\* entry that is not an Insert.
lcs_length_not_insert(a, b) ==
    LET script == diff(a, b)
    IN  Cardinality({i \in 1..Len(script) : script[i].op # INSERT})

\* lcs_length(a, b)
lcs_length(a, b) ==
    LET script == diff(a, b)
    IN  Cardinality({i \in 1..Len(script) : script[i].op = EQUAL})

\* A float that is the quotient of two integers, kept as the exact
\* fraction num/den; 1.0 is 1/1.
Ratio(num, den) == [num |-> num, den |-> den]

\* similarity_ratio(a, b) dividing lcs, not 2.0 * lcs, by total.
similarity_ratio_single(a, b) ==
    IF Len(a) = 0 /\ Len(b) = 0
    THEN Ratio(1, 1)
    ELSE LET lcs == lcs_length(a, b)
             total == Len(a) + Len(b)
         IN  IF total > 0 THEN Ratio(lcs, total) ELSE Ratio(1, 1)

\* similarity_ratio(a, b)
similarity_ratio(a, b) ==
    IF Len(a) = 0 /\ Len(b) = 0
    THEN Ratio(1, 1)
    ELSE LET lcs == lcs_length(a, b)
             total == Len(a) + Len(b)
         IN  IF total > 0 THEN Ratio(2 * lcs, total) ELSE Ratio(1, 1)

\* patch(original, script): the list returned, or raised = TRUE for a
\* ValueError (no list is returned then).
RECURSIVE PatchLoop(_, _, _, _, _)
PatchLoop(original, script, i, orig_idx, result) ==
    IF i > Len(script)
    THEN IF orig_idx # Len(original)
         THEN [raised |-> TRUE, result |-> <<>>]
         ELSE [raised |-> FALSE, result |-> result]
    ELSE LET action == script[i]
         IN  IF action.op = EQUAL
             THEN IF orig_idx >= Len(original)
                  THEN [raised |-> TRUE, result |-> <<>>]
                  ELSE IF PyIndex(original, orig_idx) # action.value
                  THEN [raised |-> TRUE, result |-> <<>>]
                  ELSE PatchLoop(original, script, i + 1, orig_idx + 1,
                                 Append(result, action.value))
             ELSE IF action.op = DELETE
             THEN IF orig_idx >= Len(original)
                  THEN [raised |-> TRUE, result |-> <<>>]
                  ELSE IF PyIndex(original, orig_idx) # action.value
                  THEN [raised |-> TRUE, result |-> <<>>]
                  ELSE PatchLoop(original, script, i + 1, orig_idx + 1, result)
             ELSE IF action.op = INSERT
             THEN PatchLoop(original, script, i + 1, orig_idx,
                            Append(result, action.value))
             ELSE IF action.op = REPLACE
             THEN IF orig_idx >= Len(original)
                  THEN [raised |-> TRUE, result |-> <<>>]
                  ELSE PatchLoop(original, script, i + 1, orig_idx + 1,
                                 Append(result, action.value))
             ELSE PatchLoop(original, script, i + 1, orig_idx, result)

\* patch without the check that the cursor ended at len(original).
patch_no_final_check(original, script) ==
    LET k == Cardinality({i \in 1..Len(script) : script[i].op # INSERT})
    IN  PatchLoop(IF k < Len(original) THEN SubSeq(original, 1, k) ELSE original,
                  script, 1, 0, <<>>)

\* patch with the cursor into original starting at 1 instead of 0.
patch_from_one(original, script) == PatchLoop(original, script, 1, 1, <<>>)

patch(original, script) == PatchLoop(original, script, 1, 0, <<>>)

\* ------------------------------------------------- script utilities
Max2(p, q) == IF p >= q THEN p ELSE q

\* min returning its first argument whatever the second is.
Min2First(p, q) == p

Min2(p, q) == IF p <= q THEN p ELSE q

\* The 0-based indices of the non-Equal entries of script, ascending.
RECURSIVE ChangeIndicesLoop(_, _, _)
ChangeIndicesLoop(script, i, acc) ==
    IF i >= Len(script) THEN acc
    ELSE ChangeIndicesLoop(script, i + 1,
             IF PyIndex(script, i).op # EQUAL THEN Append(acc, i) ELSE acc)

ChangeIndices(script) == ChangeIndicesLoop(script, 0, <<>>)

\* The merge test with `potential_start <= current_hunk_end`.
MergesIntoCurrentOverlap(potential_start, current_hunk_end) ==
    potential_start <= current_hunk_end

\* if potential_start <= current_hunk_end + 1
MergesIntoCurrent(potential_start, current_hunk_end) ==
    potential_start <= current_hunk_end + 1

\* for idx in change_indices[1:], then the final append.  ranges records
\* (current_hunk_start, current_hunk_end) of every hunk appended.
RECURSIVE HunkLoop(_, _, _, _, _, _, _, _)
HunkLoop(script, context, change_indices, p, current_hunk_start, current_hunk_end, hunks, ranges) ==
    IF p > Len(change_indices)
    THEN [hunks |-> Append(hunks, Slice(script, current_hunk_start,
                                        current_hunk_end + 1)),
          ranges |-> Append(ranges, <<current_hunk_start, current_hunk_end>>)]
    ELSE LET idx == change_indices[p]
             potential_start == Max2(0, idx - context)
         IN  IF MergesIntoCurrent(potential_start, current_hunk_end)
             THEN HunkLoop(script, context, change_indices, p + 1,
                           current_hunk_start,
                           Min2(Len(script) - 1, idx + context), hunks, ranges)
             ELSE HunkLoop(script, context, change_indices, p + 1,
                           potential_start,
                           Min2(Len(script) - 1, idx + context),
                           Append(hunks, Slice(script, current_hunk_start,
                                               current_hunk_end + 1)),
                           Append(ranges, <<current_hunk_start, current_hunk_end>>))

\* split_into_hunks(script, context) together with the index range of
\* each hunk returned.
SplitHunks(script, context) ==
    IF Len(script) = 0 THEN [hunks |-> <<>>, ranges |-> <<>>]
    ELSE LET change_indices == ChangeIndices(script)
         IN  IF Len(change_indices) = 0 THEN [hunks |-> <<>>, ranges |-> <<>>]
             ELSE HunkLoop(script, context, change_indices, 2,
                           Max2(0, change_indices[1] - context),
                           Min2(Len(script) - 1, change_indices[1] + context),
                           <<>>, <<>>)

split_into_hunks(script, context) == SplitHunks(script, context).hunks

\* for action in script[1:] of group_consecutive_ops
RECURSIVE GroupLoop(_, _, _, _, _)
GroupLoop(script, i, current_op, current_values, groups) ==
    IF i >= Len(script)
    THEN [groups |-> groups, current_op |-> current_op,
          current_values |-> current_values]
    ELSE LET action == PyIndex(script, i)
         IN  IF action.op = current_op
             THEN GroupLoop(script, i + 1, current_op,
                            Append(current_values, action.value), groups)
             ELSE GroupLoop(script, i + 1, action.op, <<action.value>>,
                            Append(groups, <<current_op, current_values>>))

\* group_consecutive_ops without the append after the loop.
group_consecutive_ops_unflushed(script) ==
    IF Len(script) = 0 THEN <<>>
    ELSE GroupLoop(script, 1, PyIndex(script, 0).op,
                   <<PyIndex(script, 0).value>>, <<>>).groups

\* group_consecutive_ops(script): a list of (op, values) pairs
group_consecutive_ops(script) ==
    IF Len(script) = 0 THEN <<>>
    ELSE LET r == GroupLoop(script, 1, PyIndex(script, 0).op,
                            <<PyIndex(script, 0).value>>, <<>>)
         IN  Append(r.groups, <<r.current_op, r.current_values>>)

\* for action in script of calculate_line_numbers
RECURSIVE LineNumbersLoop(_, _, _, _, _)
LineNumbersLoop(script, i, orig_line, mod_line, result) ==
    IF i >= Len(script) THEN result
    ELSE LET action == PyIndex(script, i)
         IN  IF action.op = EQUAL
             THEN LineNumbersLoop(script, i + 1, orig_line + 1, mod_line + 1,
                                  Append(result, <<orig_line, mod_line>>))
             ELSE IF action.op = DELETE
             THEN LineNumbersLoop(script, i + 1, orig_line + 1, mod_line,
                                  Append(result, <<orig_line, None>>))
             ELSE IF action.op = INSERT
             THEN LineNumbersLoop(script, i + 1, orig_line, mod_line + 1,
                                  Append(result, <<None, mod_line>>))
             ELSE IF action.op = REPLACE
             THEN LineNumbersLoop(script, i + 1, orig_line + 1, mod_line + 1,
                                  Append(result, <<orig_line, mod_line>>))
             ELSE LineNumbersLoop(script, i + 1, orig_line, mod_line, result)

\* calculate_line_numbers with both counters starting at 0.
calculate_line_numbers_from_zero(script) == LineNumbersLoop(script, 0, 0, 0, <<>>)

\* calculate_line_numbers(script): a list of (orig_line, mod_line) pairs
calculate_line_numbers(script) == LineNumbersLoop(script, 0, 1, 1, <<>>)

\* --------------------------------------------- DP-row-split engine (b)
Min3(p, q, r) ==
    IF p <= q /\ p <= r THEN p ELSE IF q <= r THEN q ELSE r

\* The inner loop of _score_forward for row i: curr[0..j-1] is given,
\* positions j..m are filled in.  Position j of a row is element j+1.
RECURSIVE ScoreRow(_, _, _, _, _, _)
ScoreRow(a, b, i, prev, curr, j) ==
    IF j > Len(b) THEN curr
    ELSE LET c == IF a[i] = b[j] THEN prev[j]
                  ELSE 1 + Min3(prev[j + 1], curr[j], prev[j])
         IN  ScoreRow(a, b, i, prev, Append(curr, c), j + 1)

\* The outer loop of _score_forward: the row `prev` after rows i..n.
RECURSIVE ScoreRows(_, _, _, _)
ScoreRows(a, b, i, prev) ==
    IF i > Len(a) THEN prev
    ELSE ScoreRows(a, b, i + 1, ScoreRow(a, b, i, prev, <<i>>, 1))

\* HirschbergDiff._score_forward
_score_forward(a, b) ==
    LET m == Len(b)
        last == ScoreRows(a, b, 1, [j \in 1..(m + 1) |-> j - 1])
    IN  [j \in 1..(m + 1) |-> m - last[j]]

\* HirschbergDiff._score_backward
_score_backward(a, b) == Reverse(_score_forward(Reverse(a), Reverse(b)))

\* max(combined)
RECURSIVE SeqMax(_, _)
SeqMax(s, i) ==
    IF i = Len(s) THEN s[i]
    ELSE LET r == SeqMax(s, i + 1) IN IF s[i] >= r THEN s[i] ELSE r

\* combined.index(value): the first 0-based position holding value
RECURSIVE SeqIndex(_, _, _)
SeqIndex(s, value, i) ==
    IF s[i + 1] = value THEN i ELSE SeqIndex(s, value, i + 1)

\* HirschbergDiff._diff_single_element
RECURSIVE DiffSingleLoop(_, _, _, _, _)
DiffSingleLoop(elem, b, i, found, result) ==
    IF i > Len(b)
    THEN IF ~found THEN <<make_delete(elem)>> \o result ELSE result
    ELSE IF b[i] = elem /\ ~found
    THEN DiffSingleLoop(elem, b, i + 1, TRUE, Append(result, make_equal(elem)))
    ELSE DiffSingleLoop(elem, b, i + 1, found, Append(result, make_insert(b[i])))

_diff_single_element(elem, b) == DiffSingleLoop(elem, b, 1, FALSE, <<>>)

\* HirschbergDiff._diff_against_single
RECURSIVE DiffAgainstLoop(_, _, _, _, _)
DiffAgainstLoop(a, elem, i, found, result) ==
    IF i > Len(a)
    THEN IF ~found THEN Append(result, make_insert(elem)) ELSE result
    ELSE IF a[i] = elem /\ ~found
    THEN DiffAgainstLoop(a, elem, i + 1, TRUE, Append(result, make_equal(elem)))
    ELSE DiffAgainstLoop(a, elem, i + 1, found, Append(result, make_delete(a[i])))

\* _diff_against_single with the found flag initialised to True.
_diff_against_single_found(a, elem) == DiffAgainstLoop(a, elem, 1, TRUE, <<>>)

_diff_against_single(a, elem) == DiffAgainstLoop(a, elem, 1, FALSE, <<>>)

\* The split column chosen by _hirschberg for len(a) >= 2, len(b) >= 2.
SplitColumn(a, b) ==
    LET n == Len(a)
        m == Len(b)
        mid == n \div 2
        score_left == _score_forward(Slice(a, 0, mid), b)
        score_right == _score_backward(Slice(a, mid, n), b)
        combined == [j \in 1..(m + 1) |-> score_left[j] + score_right[m - j + 2]]
    IN  SeqIndex(combined, SeqMax(combined, 1), 0)

\* HirschbergDiff._hirschberg
RECURSIVE _hirschberg(_, _)
_hirschberg(a, b) ==
    LET n == Len(a)
        m == Len(b)
    IN  IF n = 0 THEN AllInserts(b)
        ELSE IF m = 0 THEN AllDeletes(a)
        ELSE IF n = 1 THEN _diff_single_element(a[1], b)
        ELSE IF m = 1 THEN _diff_against_single(a, b[1])
        ELSE LET mid == n \div 2
                 split_j == SplitColumn(a, b)
             IN  _hirschberg(Slice(a, 0, mid), Slice(b, 0, split_j))
                 \o _hirschberg(Slice(a, mid, n), Slice(b, split_j, m))

\* diff_linear(original, modified) = HirschbergDiff(...).compute()
diff_linear(a, b) == _hirschberg(a, b)

\* ------------------------------------------- middle-snake engine (a)
\* LinearSpaceMyers._simple_diff
RECURSIVE SimpleDiffLoop(_, _, _, _, _)
SimpleDiffLoop(a, b, i, j, result) ==
    IF i < Len(a) /\ j < Len(b)
    THEN IF PyIndex(a, i) = PyIndex(b, j)
         THEN SimpleDiffLoop(a, b, i + 1, j + 1,
                             Append(result, make_equal(PyIndex(a, i))))
         ELSE IF i < Len(a)
         THEN SimpleDiffLoop(a, b, i + 1, j,
                             Append(result, make_delete(PyIndex(a, i))))
         ELSE SimpleDiffLoop(a, b, i, j + 1,
                             Append(result, make_insert(PyIndex(b, j))))
    ELSE IF i < Len(a)
    THEN SimpleDiffLoop(a, b, i + 1, j,
                        Append(result, make_delete(PyIndex(a, i))))
    ELSE IF j < Len(b)
    THEN SimpleDiffLoop(a, b, i, j + 1,
                        Append(result, make_insert(PyIndex(b, j))))
    ELSE result

_simple_diff(a, b) == SimpleDiffLoop(a, b, 0, 0, <<>>)

\* max_d of _find_middle_snake; the arrays have 2 * max_d + 1 slots and
\* diagonal k lives in slot k + max_d.
SnakeMaxD(a, b) == (Len(a) + Len(b) + 1) \div 2

\* vf(k) / vb(k)
ArrGet(arr, k, max_d) == PyIndex(arr, k + max_d)

\* set_vf(k, val) / set_vb(k, val)
ArrSet(arr, k, max_d, val) ==
    LET slot == IF k + max_d >= 0 THEN k + max_d + 1
                ELSE Len(arr) + k + max_d + 1
    IN  [arr EXCEPT ![slot] = val]

\* The start x on diagonal k at depth d, from array arr.
SnakeStart(arr, k, d, max_d) ==
    IF k = -d \/ (k # d /\ ArrGet(arr, k - 1, max_d) < ArrGet(arr, k + 1, max_d))
    THEN ArrGet(arr, k + 1, max_d)
    ELSE ArrGet(arr, k - 1, max_d) + 1

\* while x < n and y < m and a[n - 1 - x] == b[m - 1 - y]: x += 1; y += 1
RECURSIVE SlideRev(_, _, _, _)
SlideRev(a, b, x, y) ==
    IF x < Len(a) /\ y < Len(b)
       /\ PyIndex(a, Len(a) - 1 - x) = PyIndex(b, Len(b) - 1 - y)
    THEN SlideRev(a, b, x + 1, y + 1)
    ELSE x

\* LinearSpaceMyers._find_middle_snake: the depth loop (SnakeD), the
\* forward diagonal loop (SnakeFwd) and the backward one (SnakeBwd).
RECURSIVE SnakeD(_, _, _, _, _)
RECURSIVE SnakeFwd(_, _, _, _, _, _)
RECURSIVE SnakeBwd(_, _, _, _, _, _)
SnakeD(a, b, vf, vb, d) ==
    IF d > SnakeMaxD(a, b)
    THEN [snake |-> <<0, 0, Len(a), Len(b), Len(a) + Len(b)>>,
          found |-> "fallback", d |-> d]
    ELSE SnakeFwd(a, b, vf, vb, d, -d)

SnakeFwd(a, b, vf, vb, d, k) ==
    IF k > d THEN SnakeBwd(a, b, vf, vb, d, -d)
    ELSE LET n == Len(a)
             m == Len(b)
             max_d == SnakeMaxD(a, b)
             delta == n - m
             odd == (delta % 2 # 0)
             x_start == SnakeStart(vf, k, d, max_d)
             y_start == x_start - k
             x == Slide(a, b, x_start, y_start)
             y == x - k
             vf2 == ArrSet(vf, k, max_d, x)
         IN  IF odd /\ -(d - 1) <= k - delta /\ k - delta <= d - 1
                /\ ArrGet(vf2, k, max_d) + ArrGet(vb, delta - k, max_d) >= n
             THEN [snake |-> <<x_start, y_start, x, y, 2 * d - 1>>,
                   found |-> "forward", d |-> d]
             ELSE SnakeFwd(a, b, vf2, vb, d, k + 2)

SnakeBwd(a, b, vf, vb, d, k) ==
    IF k > d THEN SnakeD(a, b, vf, vb, d + 1)
    ELSE LET n == Len(a)
             m == Len(b)
             max_d == SnakeMaxD(a, b)
             delta == n - m
             odd == (delta % 2 # 0)
             x0 == SnakeStart(vb, k, d, max_d)
             x == SlideRev(a, b, x0, x0 - k)
             y == x - k
             vb2 == ArrSet(vb, k, max_d, x)
         IN  IF ~odd /\ -d <= k - delta /\ k - delta <= d
                /\ ArrGet(vb2, k, max_d) + ArrGet(vf, delta - k, max_d) >= n
             THEN [snake |-> <<n - ArrGet(vb2, k, max_d),
                               m - (ArrGet(vb2, k, max_d) - k),
                               n - x, m - y, 2 * d>>,
                   found |-> "backward", d |-> d]
             ELSE SnakeBwd(a, b, vf, vb2, d, k + 2)

\* The search returning the end of the snake before its start.
SnakeSearchReversed(a, b) ==
    LET v_size == 2 * SnakeMaxD(a, b) + 1
        zeros == [i \in 1..v_size |-> 0]
        r == SnakeD(a, b, zeros, zeros, 0)
    IN  [r EXCEPT !.snake = <<r.snake[3], r.snake[4], r.snake[1], r.snake[2],
                              r.snake[5]>>]

\* The search reporting 2 * d after a forward half-step as well.
SnakeSearchEvenOnly(a, b) ==
    LET v_size == 2 * SnakeMaxD(a, b) + 1
        zeros == [i \in 1..v_size |-> 0]
        r == SnakeD(a, b, zeros, zeros, 0)
    IN  [r EXCEPT !.snake[5] = 2 * r.d]

\* _find_middle_snake together with the return statement that produced
\* the tuple (forward half-step, backward half-step, or the return after
\* the depth loop) and the depth d of that moment.
SnakeSearch(a, b) ==
    LET v_size == 2 * SnakeMaxD(a, b) + 1
        zeros == [i \in 1..v_size |-> 0]
    IN  SnakeD(a, b, zeros, zeros, 0)

\* The search returning an empty snake at the far corner.
_find_middle_snake_at_corner(a, b) ==
    <<Len(a), Len(b), Len(a), Len(b), SnakeSearch(a, b).snake[5]>>

_find_middle_snake(a, b) == SnakeSearch(a, b).snake

\* LinearSpaceMyers._lcs_diff on the instance's (original, modified)
RECURSIVE _lcs_diff(_, _, _, _, _, _)
_lcs_diff(original, modified, x_start, x_end, y_start, y_end) ==
    LET a == Slice(original, x_start, x_end)
        b == Slice(modified, y_start, y_end)
        n == Len(a)
        m == Len(b)
    IN  IF n = 0 THEN AllInserts(b)
        ELSE IF m = 0 THEN AllDeletes(a)
        ELSE IF n = 1 \/ m = 1 THEN _simple_diff(a, b)
        ELSE LET snake == _find_middle_snake(a, b)
                 x_mid == snake[1]
                 y_mid == snake[2]
                 u == snake[3]
                 v == snake[4]
                 d == snake[5]
             IN  IF d > 1
                 THEN _lcs_diff(original, modified, x_start, x_start + x_mid,
                                y_start, y_start + y_mid)
                      \o [i \in 1..(u - x_mid) |->
                            make_equal(PyIndex(original, x_start + x_mid + i - 1))]
                      \o _lcs_diff(original, modified, x_start + u, x_end,
                                   y_start + v, y_end)
                 ELSE _simple_diff(a, b)

\* The recursive calls _lcs_diff makes below the call on the range
\* (x_start, x_end, y_start, y_end), each with the range of its caller,
\* and the number of nested calls.  depth counts the calls entered so
\* far; calls nested deeper than len(original) + len(modified) + 1 are
\* recorded but not followed.
RECURSIVE LcsDiffCalls(_, _, _, _, _, _, _)
LcsDiffCalls(original, modified, x_start, x_end, y_start, y_end, depth) ==
    LET a == Slice(original, x_start, x_end)
        b == Slice(modified, y_start, y_end)
        n == Len(a)
        m == Len(b)
        none == [calls |-> {}, depth |-> depth]
    IN  IF n = 0 \/ m = 0 \/ n = 1 \/ m = 1 THEN none
        ELSE IF depth > Len(original) + Len(modified) THEN none
        ELSE LET sn == _find_middle_snake(a, b)
                 x_mid == sn[1]
                 y_mid == sn[2]
                 u == sn[3]
                 v == sn[4]
                 caller == <<x_start, x_end, y_start, y_end>>
                 left == <<x_start, x_start + x_mid, y_start, y_start + y_mid>>
                 right == <<x_start + u, x_end, y_start + v, y_end>>
             IN  IF sn[5] > 1
                 THEN LET l == LcsDiffCalls(original, modified, left[1], left[2],
                                            left[3], left[4], depth + 1)
                          r == LcsDiffCalls(original, modified, right[1], right[2],
                                            right[3], right[4], depth + 1)
                      IN  [calls |-> {[caller |-> caller, callee |-> left],
                                      [caller |-> caller, callee |-> right]}
                                         \cup l.calls \cup r.calls,
                           depth |-> IF l.depth >= r.depth THEN l.depth ELSE r.depth]
                 ELSE none

\* The _lcs_diff calls of LinearSpaceMyers.compute.
LinearComputeCalls(original, modified) ==
    IF Len(original) = 0 \/ Len(modified) = 0
    THEN [calls |-> {}, depth |-> 0]
    ELSE LcsDiffCalls(original, modified, 0, Len(original), 0, Len(modified), 1)

\* compute() handing _lcs_diff an x_end one short of len(original).
LinearComputeShort(original, modified) ==
    IF Len(original) = 0 /\ Len(modified) = 0 THEN <<>>
    ELSE IF Len(original) = 0 THEN AllInserts(modified)
    ELSE IF Len(modified) = 0 THEN AllDeletes(original)
    ELSE _lcs_diff(original, modified, 0, Len(original) - 1, 0, Len(modified))

\* LinearSpaceMyers.compute
LinearCompute(original, modified) ==
    IF Len(original) = 0 /\ Len(modified) = 0 THEN <<>>
    ELSE IF Len(original) = 0 THEN AllInserts(modified)
    ELSE IF Len(modified) = 0 THEN AllDeletes(original)
    ELSE _lcs_diff(original, modified, 0, Len(original), 0, Len(modified))

\* diff_linear_myers(original, modified); DiffEngine(use_linear_space=True).diff
diff_linear_myers(a, b) == LinearCompute(a, b)

\* ------------------------------------------------ reference definitions
\* The test helper _apply_diff_to_get_old: values of Equal/Delete entries.
RECURSIVE ReconstructOriginal(_)
ReconstructOriginal(script) ==
    IF script = <<>> THEN <<>>
    ELSE LET h == Head(script)
         IN  IF h.op = EQUAL \/ h.op = DELETE
             THEN <<h.value>> \o ReconstructOriginal(Tail(script))
             ELSE ReconstructOriginal(Tail(script))

\* The test helper _apply_diff_to_old: values of Equal/Insert entries.
RECURSIVE ReconstructModified(_)
ReconstructModified(script) ==
    IF script = <<>> THEN <<>>
    ELSE LET h == Head(script)
         IN  IF h.op = EQUAL \/ h.op = INSERT
             THEN <<h.value>> \o ReconstructModified(Tail(script))
             ELSE ReconstructModified(Tail(script))

\* sum(1 for a in script if a.op != OpType.EQUAL)
NonEqualCount(script) == Cardinality({i \in 1..Len(script) : script[i].op # EQUAL})

\* sum(1 for a in script if a.op == OpType.EQUAL)
EqualCount(script) == Cardinality({i \in 1..Len(script) : script[i].op = EQUAL})

\* NaiveLCS.compute_matrix: entry [i, j] of the LCS matrix of seq1, seq2.
RECURSIVE NaiveLCSMatrix(_, _, _, _)
NaiveLCSMatrix(seq1, seq2, i, j) ==
    IF i = 0 \/ j = 0 THEN 0
    ELSE IF seq1[i] = seq2[j]
    THEN NaiveLCSMatrix(seq1, seq2, i - 1, j - 1) + 1
    ELSE LET up == NaiveLCSMatrix(seq1, seq2, i - 1, j)
             left == NaiveLCSMatrix(seq1, seq2, i, j - 1)
         IN  IF up >= left THEN up ELSE left

\* NaiveLCS.get_lcs_length
NaiveLCSLength(seq1, seq2) == NaiveLCSMatrix(seq1, seq2, Len(seq1), Len(seq2))

\* ---------------------------------------------------------- state machine
VARIABLES
    original,        \* the caller's first sequence (MyersDiff.original)
    modified,        \* the caller's second sequence (MyersDiff.modified)
    trace,           \* MyersDiff._trace of the caller's instance
    ed,              \* MyersDiff._edit_distance of the caller's instance
    called,          \* the operations the caller has run so far
    compute_script,  \* last value returned by instance.compute()
    get_dist,        \* last value returned by instance.get_edit_distance()
    diff_script,     \* last value returned by diff(original, modified)
    linear_script,   \* last value returned by diff_linear_myers(...)
    hirsch_script,   \* last value returned by diff_linear(...)
    fn_dist,         \* last value returned by edit_distance(...)
    patched,         \* last outcome of patch(original, diff_script)
    third,           \* a third caller sequence (triangle inequality)
    dist_bc,         \* last value returned by edit_distance(modified, third)
    dist_ac,         \* last value returned by edit_distance(original, third)
    swap_dist,       \* last value returned by edit_distance(modified, original)
    swap_script,     \* last value returned by diff(modified, original)
    lcs_ret,         \* last value returned by lcs_length(original, modified)
    sim_ret,         \* last value returned by similarity_ratio(original, modified)
    any_script,      \* a script supplied by the caller
    any_patched,     \* last outcome of patch(original, any_script)
    context,         \* the context argument of the last split_into_hunks
    hunks,           \* last value returned by split_into_hunks
    hunk_ranges,     \* (current_hunk_start, current_hunk_end) of each hunk
    groups,          \* last value returned by group_consecutive_ops
    line_numbers,    \* last value returned by calculate_line_numbers(any_script)
    diff_lines,      \* last value returned by calculate_line_numbers(diff_script)
    snake,           \* last outcome of LinearSpaceMyers._find_middle_snake
    snake_fn,        \* last value returned by find_middle_snake of myers.py
    path,            \* last outcome of MyersDiff._find_path
    recursion        \* the _lcs_diff calls of the last LinearSpaceMyers.compute

\* The variables of the distance, similarity, patch and hunk callers.
more == <<third, dist_bc, dist_ac, swap_dist, swap_script, lcs_ret, sim_ret,
          any_script, any_patched, context, hunks, hunk_ranges>>

\* The variables of the script utilities and of the engines' inner steps.
aux == <<groups, line_numbers, diff_lines, snake, snake_fn, path, recursion>>

vars == <<original, modified, trace, ed, called, compute_script, get_dist,
          diff_script, linear_script, hirsch_script, fn_dist, patched, more, aux>>

\* Nothing has been called yet: no result of the additional callers.
Blank ==
    /\ dist_bc = None
    /\ dist_ac = None
    /\ swap_dist = None
    /\ swap_script = <<>>
    /\ lcs_ret = None
    /\ sim_ret = None
    /\ any_patched = [raised |-> FALSE, result |-> <<>>]
    /\ context = None
    /\ hunks = <<>>
    /\ hunk_ranges = <<>>
    /\ groups = <<>>
    /\ line_numbers = <<>>
    /\ diff_lines = <<>>
    /\ snake = None
    /\ snake_fn = None
    /\ path = None
    /\ recursion = None

\* MyersDiff.__init__ on a pair of caller sequences; nothing called yet.
Init ==
    /\ original \in Inputs
    /\ modified \in Inputs
    /\ third = <<>>
    /\ any_script = <<>>
    /\ Blank
    /\ trace = <<>>
    /\ ed = None
    /\ called = {}
    /\ compute_script = <<>>
    /\ get_dist = None
    /\ diff_script = <<>>
    /\ linear_script = <<>>
    /\ hirsch_script = <<>>
    /\ fn_dist = None
    /\ patched = [raised |-> FALSE, result |-> <<>>]

\* instance.compute()
Compute ==
    LET r == MyersCompute(original, modified, trace, ed)
    IN  /\ compute_script' = r.script
        /\ trace' = r.trace
        /\ ed' = r.edit_distance
        /\ called' = called \cup {"compute"}
        /\ UNCHANGED <<original, modified, get_dist, diff_script,
                       linear_script, hirsch_script, fn_dist, patched>>
        /\ UNCHANGED <<more, aux>>

\* instance.get_edit_distance()
GetEditDistance ==
    LET r == MyersGetEditDistance(original, modified, trace, ed)
    IN  /\ get_dist' = r.ret
        /\ trace' = r.trace
        /\ ed' = r.edit_distance
        /\ called' = called \cup {"get_edit_distance"}
        /\ UNCHANGED <<original, modified, compute_script, diff_script,
                       linear_script, hirsch_script, fn_dist, patched>>
        /\ UNCHANGED <<more, aux>>

\* diff(original, modified)
Diff ==
    /\ diff_script' = diff(original, modified)
    /\ called' = called \cup {"diff"}
    /\ UNCHANGED <<original, modified, trace, ed, compute_script, get_dist,
                   linear_script, hirsch_script, fn_dist, patched>>
    /\ UNCHANGED <<more, aux>>

\* diff_linear_myers(original, modified)
DiffLinearMyers ==
    /\ linear_script' = diff_linear_myers(original, modified)
    /\ called' = called \cup {"diff_linear_myers"}
    /\ UNCHANGED <<original, modified, trace, ed, compute_script, get_dist,
                   diff_script, hirsch_script, fn_dist, patched>>
    /\ UNCHANGED <<more, aux>>

\* diff_linear(original, modified)
DiffLinear ==
    /\ hirsch_script' = diff_linear(original, modified)
    /\ called' = called \cup {"diff_linear"}
    /\ UNCHANGED <<original, modified, trace, ed, compute_script, get_dist,
                   diff_script, linear_script, fn_dist, patched>>
    /\ UNCHANGED <<more, aux>>

\* edit_distance(original, modified)
EditDistance ==
    /\ fn_dist' = edit_distance(original, modified)
    /\ called' = called \cup {"edit_distance"}
    /\ UNCHANGED <<original, modified, trace, ed, compute_script, get_dist,
                   diff_script, linear_script, hirsch_script, patched>>
    /\ UNCHANGED <<more, aux>>

\* patch(original, script) on the script diff returned
Patch ==
    /\ "diff" \in called
    /\ patched' = patch(original, diff_script)
    /\ called' = called \cup {"patch"}
    /\ UNCHANGED <<original, modified, trace, ed, compute_script, get_dist,
                   diff_script, linear_script, hirsch_script, fn_dist>>
    /\ UNCHANGED <<more, aux>>

\* The variables of the engines, the instance and patch(diff) callers.
engine_vars == <<original, modified, trace, ed, compute_script, get_dist,
                 diff_script, linear_script, hirsch_script, fn_dist, patched>>

\* edit_distance(modified, third)
EditDistanceBC ==
    /\ dist_bc' = edit_distance(modified, third)
    /\ called' = called \cup {"edit_distance_bc"}
    /\ UNCHANGED <<engine_vars, aux>>
    /\ UNCHANGED <<third, dist_ac, swap_dist, swap_script, lcs_ret, sim_ret,
                   any_script, any_patched, context, hunks, hunk_ranges>>

\* edit_distance(original, third)
EditDistanceAC ==
    /\ dist_ac' = edit_distance(original, third)
    /\ called' = called \cup {"edit_distance_ac"}
    /\ UNCHANGED <<engine_vars, aux>>
    /\ UNCHANGED <<third, dist_bc, swap_dist, swap_script, lcs_ret, sim_ret,
                   any_script, any_patched, context, hunks, hunk_ranges>>

\* edit_distance(modified, original)
EditDistanceSwapped ==
    /\ swap_dist' = edit_distance(modified, original)
    /\ called' = called \cup {"edit_distance_swapped"}
    /\ UNCHANGED <<engine_vars, aux>>
    /\ UNCHANGED <<third, dist_bc, dist_ac, swap_script, lcs_ret, sim_ret,
                   any_script, any_patched, context, hunks, hunk_ranges>>

\* diff(modified, original)
DiffSwapped ==
    /\ swap_script' = diff(modified, original)
    /\ called' = called \cup {"diff_swapped"}
    /\ UNCHANGED <<engine_vars, aux>>
    /\ UNCHANGED <<third, dist_bc, dist_ac, swap_dist, lcs_ret, sim_ret,
                   any_script, any_patched, context, hunks, hunk_ranges>>

\* patch(original, any_script)
PatchAny ==
    /\ any_patched' = patch(original, any_script)
    /\ called' = called \cup {"patch_any"}
    /\ UNCHANGED <<engine_vars, aux>>
    /\ UNCHANGED <<third, dist_bc, dist_ac, swap_dist, swap_script, lcs_ret,
                   sim_ret, any_script, context, hunks, hunk_ranges>>

\* lcs_length(original, modified)
LcsLength ==
    /\ lcs_ret' = lcs_length(original, modified)
    /\ called' = called \cup {"lcs_length"}
    /\ UNCHANGED <<engine_vars, aux>>
    /\ UNCHANGED <<third, dist_bc, dist_ac, swap_dist, swap_script, sim_ret,
                   any_script, any_patched, context, hunks, hunk_ranges>>

\* similarity_ratio(original, modified)
SimilarityRatio ==
    /\ sim_ret' = similarity_ratio(original, modified)
    /\ called' = called \cup {"similarity_ratio"}
    /\ UNCHANGED <<engine_vars, aux>>
    /\ UNCHANGED <<third, dist_bc, dist_ac, swap_dist, swap_script, lcs_ret,
                   any_script, any_patched, context, hunks, hunk_ranges>>

\* split_into_hunks(any_script, c) for a context c the caller picks
SplitIntoHunks ==
    \E c \in 0..MaxContext :
        /\ context' = c
        /\ hunks' = split_into_hunks(any_script, c)
        /\ hunk_ranges' = SplitHunks(any_script, c).ranges
        /\ called' = called \cup {"split_into_hunks"}
        /\ UNCHANGED <<engine_vars, aux>>
        /\ UNCHANGED <<third, dist_bc, dist_ac, swap_dist, swap_script, lcs_ret,
                       sim_ret, any_script, any_patched>>

\* group_consecutive_ops(any_script)
GroupConsecutiveOps ==
    /\ groups' = group_consecutive_ops(any_script)
    /\ called' = called \cup {"group_consecutive_ops"}
    /\ UNCHANGED <<engine_vars, more>>
    /\ UNCHANGED <<line_numbers, diff_lines, snake, snake_fn, path, recursion>>

\* calculate_line_numbers(any_script)
CalculateLineNumbers ==
    /\ line_numbers' = calculate_line_numbers(any_script)
    /\ called' = called \cup {"calculate_line_numbers"}
    /\ UNCHANGED <<engine_vars, more>>
    /\ UNCHANGED <<groups, diff_lines, snake, snake_fn, path, recursion>>

\* calculate_line_numbers(diff_script) on the script diff returned
LineNumbersOfDiff ==
    /\ "diff" \in called
    /\ diff_lines' = calculate_line_numbers(diff_script)
    /\ called' = called \cup {"line_numbers_of_diff"}
    /\ UNCHANGED <<engine_vars, more>>
    /\ UNCHANGED <<groups, line_numbers, snake, snake_fn, path, recursion>>

\* LinearSpaceMyers._find_middle_snake(original, modified), which
\* _lcs_diff calls on non-empty sequences only
FindMiddleSnakeLinear ==
    /\ Len(original) >= 1
    /\ Len(modified) >= 1
    /\ snake' = SnakeSearch(original, modified)
    /\ called' = called \cup {"_find_middle_snake"}
    /\ UNCHANGED <<engine_vars, more>>
    /\ UNCHANGED <<groups, line_numbers, diff_lines, snake_fn, path, recursion>>

\* find_middle_snake(original, modified) with the default offsets
FindMiddleSnake ==
    /\ snake_fn' = find_middle_snake(original, modified, 0, 0)
    /\ called' = called \cup {"find_middle_snake"}
    /\ UNCHANGED <<engine_vars, more>>
    /\ UNCHANGED <<groups, line_numbers, diff_lines, snake, path, recursion>>

\* instance._find_path(), which compute() calls on non-empty sequences
\* only
FindPathCall ==
    /\ Len(original) >= 1
    /\ Len(modified) >= 1
    /\ path' = FindPath(original, modified, ed)
    /\ ed' = path'.edit_distance
    /\ called' = called \cup {"_find_path"}
    /\ UNCHANGED <<original, modified, trace, compute_script, get_dist,
                   diff_script, linear_script, hirsch_script, fn_dist, patched>>
    /\ UNCHANGED more
    /\ UNCHANGED <<groups, line_numbers, diff_lines, snake, snake_fn, recursion>>

\* LinearSpaceMyers(original, modified).compute(), its recursion observed
LinearComputeRecursion ==
    /\ recursion' = LinearComputeCalls(original, modified)
    /\ called' = called \cup {"linear_compute"}
    /\ UNCHANGED <<engine_vars, more>>
    /\ UNCHANGED <<groups, line_numbers, diff_lines, snake, snake_fn, path>>

Next ==
    \/ Compute
    \/ GetEditDistance
    \/ Diff
    \/ DiffLinearMyers
    \/ DiffLinear
    \/ EditDistance
    \/ Patch
    \/ EditDistanceBC
    \/ EditDistanceAC
    \/ EditDistanceSwapped
    \/ DiffSwapped
    \/ PatchAny
    \/ LcsLength
    \/ SimilarityRatio
    \/ SplitIntoHunks
    \/ GroupConsecutiveOps
    \/ CalculateLineNumbers
    \/ LineNumbersOfDiff
    \/ FindMiddleSnakeLinear
    \/ FindMiddleSnake
    \/ FindPathCall
    \/ LinearComputeRecursion

Spec == Init /\ [][Next]_vars

\* The quadratic engine on its own: on an instance and through diff.
NextQuadratic == Compute \/ Diff

SpecQuadratic == Init /\ [][NextQuadratic]_vars

\* diff followed by patch.
NextPatch == Diff \/ Patch

SpecPatch == Init /\ [][NextPatch]_vars

\* The middle-snake engine next to the quadratic one.
NextLinear == Diff \/ DiffLinearMyers

SpecLinear == Init /\ [][NextLinear]_vars

\* The DP-row-split engine next to the quadratic one.
NextHirschberg == Diff \/ DiffLinear

SpecHirschberg == Init /\ [][NextHirschberg]_vars

\* The two distance queries next to diff.
NextDistance == GetEditDistance \/ EditDistance \/ Diff

SpecDistance == Init /\ [][NextDistance]_vars

\* All engines on a pair of identical sequences.
InitIdentity == Init /\ original = modified

NextEngines == Compute \/ Diff \/ DiffLinearMyers \/ DiffLinear

SpecIdentity == InitIdentity /\ [][NextEngines]_vars

\* All engines on a pair with an empty side.
InitBoundary == Init /\ (original = <<>> \/ modified = <<>>)

SpecBoundary == InitBoundary /\ [][NextEngines]_vars

\* Three caller sequences and the three distances of the triangle.
InitTriangle ==
    /\ original \in Inputs
    /\ modified \in Inputs
    /\ third \in Inputs
    /\ any_script = <<>>
    /\ Blank
    /\ trace = <<>>
    /\ ed = None
    /\ called = {}
    /\ compute_script = <<>>
    /\ get_dist = None
    /\ diff_script = <<>>
    /\ linear_script = <<>>
    /\ hirsch_script = <<>>
    /\ fn_dist = None
    /\ patched = [raised |-> FALSE, result |-> <<>>]

NextTriangle == EditDistance \/ EditDistanceBC \/ EditDistanceAC

SpecTriangle == InitTriangle /\ [][NextTriangle]_vars

\* The distance and the script of a pair and of the swapped pair, called
\* one after the other as test_edit_distance_symmetric calls them.
NextSymmetry ==
    \/ called = {} /\ EditDistance
    \/ called = {"edit_distance"} /\ EditDistanceSwapped
    \/ called = {"edit_distance", "edit_distance_swapped"} /\ Diff
    \/ called = {"edit_distance", "edit_distance_swapped", "diff"} /\ DiffSwapped

SpecSymmetry == Init /\ [][NextSymmetry]_vars

\* diff on a pair and on the swapped pair.
NextSwap == Diff \/ DiffSwapped

SpecSwap == Init /\ [][NextSwap]_vars

\* An original and a caller-supplied script; no second sequence.
InitScript(scripts) ==
    /\ original \in Inputs
    /\ modified = <<>>
    /\ third = <<>>
    /\ any_script \in scripts
    /\ Blank
    /\ trace = <<>>
    /\ ed = None
    /\ called = {}
    /\ compute_script = <<>>
    /\ get_dist = None
    /\ diff_script = <<>>
    /\ linear_script = <<>>
    /\ hirsch_script = <<>>
    /\ fn_dist = None
    /\ patched = [raised |-> FALSE, result |-> <<>>]

\* patch on any script of Insert, Delete and Equal entries.
InitPatchPlain == InitScript(ScriptsUpTo(MaxScriptLen, PlainEntries))

SpecPatchPlain == InitPatchPlain /\ [][PatchAny]_vars

\* patch on any script, Replace entries included.
InitPatchReplace ==
    InitScript(ScriptsUpTo(MaxScriptLen, PlainEntries \cup ReplaceEntries))

SpecPatchReplace == InitPatchReplace /\ [][PatchAny]_vars

\* The derived measures of one pair of sequences.
NextMetrics == LcsLength \/ SimilarityRatio

SpecMetrics == Init /\ [][NextMetrics]_vars

\* One caller running the three engines on the same pair, one after the
\* other.
NextEmit ==
    \/ called = {} /\ Diff
    \/ called = {"diff"} /\ DiffLinearMyers
    \/ called = {"diff", "diff_linear_myers"} /\ DiffLinear

SpecEmit == Init /\ [][NextEmit]_vars

\* compute() and get_edit_distance() called on one instance any number
\* of times in any order.
NextInstance == Compute \/ GetEditDistance

SpecInstance == Init /\ [][NextInstance]_vars

\* The entries of the scripts handed to split_into_hunks: one of each
\* kind an engine emits, over one value.
HunkEntries == {make_equal(1), make_insert(1), make_delete(1)}

\* split_into_hunks on any script of at most MaxHunkLen entries.
InitHunks ==
    /\ InitScript(ScriptsUpTo(MaxHunkLen, HunkEntries))
    /\ original = <<>>

SpecHunks == InitHunks /\ [][SplitIntoHunks]_vars

\* A caller-supplied script of any kinds of entry and no sequences.
InitUtility ==
    /\ original = <<>>
    /\ InitScript(ScriptsUpTo(MaxScriptLen, PlainEntries \cup ReplaceEntries))

SpecGroups == InitUtility /\ [][GroupConsecutiveOps]_vars

\* Line numbers of a caller-supplied script, or of the script diff
\* returns for a pair of sequences.
InitLines == InitUtility \/ Init

NextLines ==
    \/ any_script # <<>> /\ CalculateLineNumbers
    \/ any_script = <<>> /\ Diff
    \/ LineNumbersOfDiff

SpecLines == InitLines /\ [][NextLines]_vars

\* The two middle-snake searches on one pair.
NextSnake == FindMiddleSnakeLinear \/ FindMiddleSnake

SpecSnake == Init /\ [][NextSnake]_vars

\* The middle-snake search of the linear-space engine alone.
SpecSplit == Init /\ [][FindMiddleSnakeLinear]_vars

\* The forward search of the quadratic engine, alone and inside compute().
NextPath == FindPathCall \/ Compute

SpecPath == Init /\ [][NextPath]_vars

\* The recursion of the linear-space engine on one pair.
SpecRecursion == Init /\ [][LinearComputeRecursion]_vars

\* ------------------------------------------------------------- claims
\* script is exactly one entry of the given kind per element of seq,
\* carrying seq's elements in order.
AllOfKind(script, kind, seq) ==
    /\ Len(script) = Len(seq)
    /\ \A i \in 1..Len(script) : script[i].op = kind /\ script[i].value = seq[i]

\* The reconstruction invariant of an edit script for (original, modified).
Reconstructs(script) ==
    /\ ReconstructOriginal(script) = original
    /\ ReconstructModified(script) = modified

\* C1: the script of the quadratic engine (diff and MyersDiff.compute)
\* reconstructs both inputs: its Equal+Delete values are the original and
\* its Equal+Insert values are the modified sequence.
C1_QuadraticReconstruction ==
    /\ "diff" \in called => Reconstructs(diff_script)
    /\ "compute" \in called => Reconstructs(compute_script)

C1_Witness ==
    /\ {"diff", "compute"} \subseteq called
    /\ Len(original) >= 2 /\ Len(modified) >= 2
    /\ EqualCount(diff_script) >= 1
    /\ NonEqualCount(diff_script) >= 2
    /\ NonEqualCount(compute_script) >= 2

\* C2: the number of non-Equal entries of diff(A, B) is the true edit
\* distance len(A) + len(B) - 2 * LCS(A, B).
C2_QuadraticMinimal ==
    "diff" \in called =>
        NonEqualCount(diff_script) =
            Len(original) + Len(modified) - 2 * NaiveLCSLength(original, modified)

C2_Witness ==
    /\ "diff" \in called
    /\ NaiveLCSLength(original, modified) >= 1
    /\ NaiveLCSLength(original, modified) < Len(original)
    /\ NaiveLCSLength(original, modified) < Len(modified)
    /\ NonEqualCount(diff_script) >= 2

\* C3: patch(A, diff(A, B)) returns normally and returns B.
C3_PatchRoundTrip ==
    "patch" \in called => (~patched.raised /\ patched.result = modified)

C3_Witness ==
    /\ "patch" \in called
    /\ ~patched.raised
    /\ Len(original) >= 2 /\ Len(modified) >= 2
    /\ original # modified
    /\ EqualCount(diff_script) >= 1

\* C4: the script of the middle-snake linear-space engine reconstructs
\* both inputs.
C4_LinearReconstruction ==
    "diff_linear_myers" \in called => Reconstructs(linear_script)

C4_Witness ==
    /\ "diff_linear_myers" \in called
    /\ Len(original) >= 2 /\ Len(modified) >= 2
    /\ _find_middle_snake(original, modified)[5] > 1
    /\ EqualCount(linear_script) >= 1

\* C5: the middle-snake linear-space engine's script has the same length
\* as the quadratic engine's script for the same inputs.
C5_LinearSameLength ==
    {"diff_linear_myers", "diff"} \subseteq called =>
        /\ Len(linear_script) = Len(diff_script)
        /\ NonEqualCount(linear_script) = NonEqualCount(diff_script)

\* C6: the script of the DP-row-split engine reconstructs both inputs,
\* and reconstructs the same modified sequence as the quadratic engine's.
C6_HirschbergReconstruction ==
    "diff_linear" \in called =>
        /\ Reconstructs(hirsch_script)
        /\ "diff" \in called =>
              ReconstructModified(hirsch_script) = ReconstructModified(diff_script)

C6_Witness ==
    /\ {"diff_linear", "diff"} \subseteq called
    /\ Len(original) >= 2 /\ Len(modified) >= 2
    /\ original # modified
    /\ EqualCount(hirsch_script) >= 1

\* C7: the DP-row-split engine's script has as many Equal entries, and
\* the same length, as the quadratic engine's script.
C7_HirschbergSameEquals ==
    {"diff_linear", "diff"} \subseteq called =>
        /\ EqualCount(hirsch_script) = EqualCount(diff_script)
        /\ Len(hirsch_script) = Len(diff_script)

\* C8: on identical inputs (A, A) every engine returns exactly len(A)
\* Equal entries carrying A in order.
C8_Identity ==
    original = modified =>
        /\ "diff" \in called => AllOfKind(diff_script, EQUAL, original)
        /\ "compute" \in called => AllOfKind(compute_script, EQUAL, original)
        /\ "diff_linear_myers" \in called => AllOfKind(linear_script, EQUAL, original)
        /\ "diff_linear" \in called => AllOfKind(hirsch_script, EQUAL, original)

C8_Witness ==
    /\ original = modified
    /\ Len(original) >= 2
    /\ {"diff", "diff_linear_myers", "diff_linear"} \subseteq called
    /\ Len(diff_script) >= 2 /\ Len(linear_script) >= 2 /\ Len(hirsch_script) >= 2

\* C9: for ([], B) every engine returns len(B) Insert entries carrying B,
\* for (A, []) len(A) Delete entries carrying A, for ([], []) the empty
\* script; the quadratic engine records no trace in these cases.
C9_Boundary ==
    /\ Len(original) = 0 =>
        /\ "diff" \in called => AllOfKind(diff_script, INSERT, modified)
        /\ "compute" \in called => AllOfKind(compute_script, INSERT, modified)
        /\ "diff_linear_myers" \in called => AllOfKind(linear_script, INSERT, modified)
        /\ "diff_linear" \in called => AllOfKind(hirsch_script, INSERT, modified)
    /\ Len(modified) = 0 =>
        /\ "diff" \in called => AllOfKind(diff_script, DELETE, original)
        /\ "compute" \in called => AllOfKind(compute_script, DELETE, original)
        /\ "diff_linear_myers" \in called => AllOfKind(linear_script, DELETE, original)
        /\ "diff_linear" \in called => AllOfKind(hirsch_script, DELETE, original)
    /\ (Len(original) = 0 \/ Len(modified) = 0) /\ "compute" \in called =>
        trace = <<>>

C9_Witness ==
    /\ Len(original) = 0
    /\ Len(modified) >= 2
    /\ {"diff", "compute", "diff_linear_myers", "diff_linear"} \subseteq called
    /\ Len(compute_script) >= 2 /\ Len(hirsch_script) >= 2

\* C10: edit_distance(A, B) and get_edit_distance() equal the number of
\* non-Equal entries of diff(A, B).
C10_EditDistanceIsNonEqualCount ==
    /\ {"edit_distance", "diff"} \subseteq called =>
          fn_dist = NonEqualCount(diff_script)
    /\ {"get_edit_distance", "diff"} \subseteq called =>
          get_dist = NonEqualCount(diff_script)

\* sum(1 for a in actions if a.op == OpType.INSERT)
InsertCount(script) == Cardinality({i \in 1..Len(script) : script[i].op = INSERT})

\* sum(1 for a in actions if a.op == OpType.DELETE)
DeleteCount(script) == Cardinality({i \in 1..Len(script) : script[i].op = DELETE})

\* C11: triangle inequality of the public edit_distance:
\* edit_distance(A, C) <= edit_distance(A, B) + edit_distance(B, C), with
\* A = original, B = modified, C = third, empty sequences included.
C11_TriangleInequality ==
    {"edit_distance", "edit_distance_bc", "edit_distance_ac"} \subseteq called =>
        dist_ac <= fn_dist + dist_bc

\* C12: edit_distance(A, B) = edit_distance(B, A), and diff(A, B) has as
\* many non-Equal entries as diff(B, A).
C12_DistanceSymmetry ==
    /\ {"edit_distance", "edit_distance_swapped"} \subseteq called =>
          fn_dist = swap_dist
    /\ {"diff", "diff_swapped"} \subseteq called =>
          NonEqualCount(diff_script) = NonEqualCount(swap_script)

C12_Witness ==
    /\ {"edit_distance", "edit_distance_swapped", "diff", "diff_swapped"}
          \subseteq called
    /\ Len(original) >= 2 /\ Len(modified) >= 1
    /\ Len(original) # Len(modified)
    /\ fn_dist >= 2
    /\ EqualCount(diff_script) >= 1

\* C19: diff(A, B) has as many Insert entries as diff(B, A) has Delete
\* entries, and as many Delete entries as diff(B, A) has Insert entries.
C19_SwapSymmetry ==
    {"diff", "diff_swapped"} \subseteq called =>
        /\ InsertCount(diff_script) = DeleteCount(swap_script)
        /\ DeleteCount(diff_script) = InsertCount(swap_script)

C19_Witness ==
    /\ {"diff", "diff_swapped"} \subseteq called
    /\ InsertCount(diff_script) >= 2
    /\ DeleteCount(diff_script) >= 1
    /\ InsertCount(diff_script) # DeleteCount(diff_script)
    /\ EqualCount(diff_script) >= 1

\* C13: for a script of Insert/Delete/Equal entries, patch returns
\* normally exactly when the script's Equal+Delete values are the
\* original, and then returns its Equal+Insert values; otherwise it raises
\* ValueError and yields no result.
C13_PatchIffConsistent ==
    "patch_any" \in called =>
        IF ReconstructOriginal(any_script) = original
        THEN /\ ~any_patched.raised
             /\ any_patched.result = ReconstructModified(any_script)
        ELSE /\ any_patched.raised
             /\ any_patched.result = <<>>

C13_Witness ==
    /\ "patch_any" \in called
    /\ ~any_patched.raised
    /\ Len(original) >= 2
    /\ Len(any_patched.result) >= 2
    /\ any_patched.result # original

\* The first Replace entry of a script whose old_value differs from the
\* element of original under the cursor, the entries before it being
\* consistent with original (0 when there is none).
RECURSIVE ReplaceMismatchAt(_, _, _, _)
ReplaceMismatchAt(orig, script, i, orig_idx) ==
    IF i > Len(script) THEN 0
    ELSE LET e == script[i]
         IN  IF e.op = INSERT
             THEN ReplaceMismatchAt(orig, script, i + 1, orig_idx)
             ELSE IF orig_idx >= Len(orig) THEN 0
             ELSE IF e.op = REPLACE
             THEN IF e.old_value # orig[orig_idx + 1] THEN i
                  ELSE ReplaceMismatchAt(orig, script, i + 1, orig_idx + 1)
             ELSE IF e.value # orig[orig_idx + 1] THEN 0
             ELSE ReplaceMismatchAt(orig, script, i + 1, orig_idx + 1)

\* C14: patch raises when a Replace entry's old_value does not match
\* original at the cursor; such an entry is never silently applied.
C14_ReplaceMismatchRaises ==
    ("patch_any" \in called /\ ReplaceMismatchAt(original, any_script, 1, 0) > 0)
        => any_patched.raised

\* TRUE iff some element occurs in both a and b.
SharesElement(a, b) == \E i \in 1..Len(a) : \E j \in 1..Len(b) : a[i] = b[j]

\* C15: lcs_length(A,B) is the length of a longest common subsequence;
\* it lies in 0..min(len(A), len(B)), is len(A) when A = B and 0 when A
\* and B share no element.
C15_LcsLength ==
    "lcs_length" \in called =>
        /\ lcs_ret = NaiveLCSLength(original, modified)
        /\ 0 <= lcs_ret
        /\ lcs_ret <= Len(original)
        /\ lcs_ret <= Len(modified)
        /\ original = modified => lcs_ret = Len(original)
        /\ ~SharesElement(original, modified) => lcs_ret = 0

C15_Witness ==
    /\ "lcs_length" \in called
    /\ lcs_ret >= 2
    /\ lcs_ret < Len(original)
    /\ lcs_ret < Len(modified)

\* C16: similarity_ratio(A,B) is 1.0 when both are empty and otherwise
\* 2*lcs/(len(A)+len(B)); it lies in [0,1], is 1.0 when A = B and 0.0
\* when A and B share no element.
C16_SimilarityRatio ==
    "similarity_ratio" \in called =>
        LET total == Len(original) + Len(modified)
            lcs == NaiveLCSLength(original, modified)
        IN  /\ sim_ret.den > 0
            /\ total = 0 => sim_ret.num = sim_ret.den
            /\ total > 0 => sim_ret.num * total = 2 * lcs * sim_ret.den
            /\ 0 <= sim_ret.num
            /\ sim_ret.num <= sim_ret.den
            /\ original = modified => sim_ret.num = sim_ret.den
            /\ ~SharesElement(original, modified) /\ total > 0 => sim_ret.num = 0

C16_Witness ==
    /\ "similarity_ratio" \in called
    /\ 0 < sim_ret.num
    /\ sim_ret.num < sim_ret.den
    /\ Len(original) # Len(modified)
    /\ Len(original) >= 2

\* TRUE iff every entry of script is an Insert, Delete or Equal with an
\* empty old_value.
NoReplace(script) ==
    \A i \in 1..Len(script) :
        /\ script[i].op \in {INSERT, DELETE, EQUAL}
        /\ script[i].old_value = None

\* C17: no engine emits a Replace entry: every entry returned by diff,
\* diff_linear_myers and diff_linear is an Insert, Delete or Equal with
\* old_value None.
C17_NoReplaceEmitted ==
    /\ "diff" \in called => NoReplace(diff_script)
    /\ "diff_linear_myers" \in called => NoReplace(linear_script)
    /\ "diff_linear" \in called => NoReplace(hirsch_script)

C17_Witness ==
    /\ {"diff", "diff_linear_myers", "diff_linear"} \subseteq called
    /\ \A script \in {diff_script, linear_script, hirsch_script} :
          /\ InsertCount(script) >= 1
          /\ DeleteCount(script) >= 1
          /\ EqualCount(script) >= 1

SameHunk(i, j) ==
    \E r \in 1..Len(hunk_ranges) :
        hunk_ranges[r][1] <= i /\ j <= hunk_ranges[r][2]

\* The pairs <<i, j>> of consecutive non-Equal positions of any_script.
ConsecutiveChanges ==
    LET ci == ChangeIndices(any_script)
    IN  {<<ci[p], ci[p + 1]>> : p \in 1..(Len(ci) - 1)}

\* C20 as stated: two consecutive non-Equal indices i < j share a hunk
\* exactly when j - i <= context.
C20_MergeWithinContext ==
    "split_into_hunks" \in called =>
        \A pr \in ConsecutiveChanges :
            SameHunk(pr[1], pr[2]) <=> (pr[2] - pr[1] <= context)

\* C20 amended: two consecutive non-Equal indices i < j share a hunk
\* exactly when their context windows overlap or touch, that is when
\* j - i <= 2 * context + 1; each hunk is the slice of the script its
\* range names.
C20_MergeWhenWindowsTouch ==
    "split_into_hunks" \in called =>
        /\ \A pr \in ConsecutiveChanges :
              SameHunk(pr[1], pr[2]) <=> (pr[2] - pr[1] <= 2 * context + 1)
        /\ Len(hunks) = Len(hunk_ranges)
        /\ \A r \in 1..Len(hunks) :
              hunks[r] = Slice(any_script, hunk_ranges[r][1], hunk_ranges[r][2] + 1)

C20_Witness ==
    /\ "split_into_hunks" \in called
    /\ context = 1
    /\ \E pr \in ConsecutiveChanges :
          /\ pr[2] - pr[1] = 3
          /\ SameHunk(pr[1], pr[2])
    /\ \E pr \in ConsecutiveChanges :
          /\ pr[2] - pr[1] = 4
          /\ ~SameHunk(pr[1], pr[2])

\* The non-Equal positions of any_script that lie in the r-th hunk.
ChangesIn(r) ==
    LET ci == ChangeIndices(any_script)
    IN  {ci[p] : p \in {q \in 1..Len(ci) :
                          hunk_ranges[r][1] <= ci[q] /\ ci[q] <= hunk_ranges[r][2]}}

SetMin(S) == CHOOSE x \in S : \A y \in S : x <= y

SetMax(S) == CHOOSE x \in S : \A y \in S : x >= y

\* C21: split_into_hunks returns [] when the script has no non-Equal
\* entry; otherwise the hunks are contiguous slices in script order,
\* pairwise non-overlapping, each spanning from max(0, first change of its
\* group - context) to min(len - 1, last change of its group + context);
\* every non-Equal entry lies in exactly one hunk and every hunk holds one.
C21_HunkWindows ==
    "split_into_hunks" \in called =>
        LET ci == ChangeIndices(any_script)
            n == Len(any_script)
        IN  /\ Len(hunks) = Len(hunk_ranges)
            /\ Len(ci) = 0 => hunks = <<>>
            /\ Len(ci) > 0 => Len(hunks) >= 1
            /\ \A r \in 1..Len(hunks) :
                  /\ hunks[r] = Slice(any_script, hunk_ranges[r][1],
                                      hunk_ranges[r][2] + 1)
                  /\ ChangesIn(r) # {}
                  /\ LET lo == SetMin(ChangesIn(r)) - context
                         hi == SetMax(ChangesIn(r)) + context
                     IN  /\ hunk_ranges[r][1] = IF lo < 0 THEN 0 ELSE lo
                         /\ hunk_ranges[r][2] = IF hi > n - 1 THEN n - 1 ELSE hi
            /\ \A r \in 1..(Len(hunks) - 1) :
                  hunk_ranges[r][2] < hunk_ranges[r + 1][1]
            /\ \A p \in 1..Len(ci) :
                  Cardinality({r \in 1..Len(hunks) : ci[p] \in ChangesIn(r)}) = 1

C21_Witness ==
    /\ "split_into_hunks" \in called
    /\ context = 1
    /\ Len(hunks) = 2
    /\ Cardinality(ChangesIn(1)) = 2
    /\ hunk_ranges[1][1] = 0
    /\ PyIndex(any_script, 0).op # EQUAL
    /\ hunk_ranges[2][2] < Len(any_script) - 1

\* The (kind, value) pairs of a list of groups, group after group.
RECURSIVE FlattenGroups(_, _)
FlattenGroups(gs, r) ==
    IF r > Len(gs) THEN <<>>
    ELSE [i \in 1..Len(gs[r][2]) |-> <<gs[r][1], gs[r][2][i]>>]
         \o FlattenGroups(gs, r + 1)

\* C22: group_consecutive_ops is a run-length encoding by kind: [] for
\* the empty script; otherwise no group is empty, adjacent groups differ
\* in kind, and the groups concatenated reproduce the script's
\* (kind, value) pairs in order.
C22_RunLengthEncoding ==
    "group_consecutive_ops" \in called =>
        /\ Len(any_script) = 0 => groups = <<>>
        /\ \A r \in 1..Len(groups) : Len(groups[r][2]) >= 1
        /\ \A r \in 1..(Len(groups) - 1) : groups[r][1] # groups[r + 1][1]
        /\ FlattenGroups(groups, 1) =
              [i \in 1..Len(any_script) |->
                  <<any_script[i].op, any_script[i].value>>]

C22_Witness ==
    /\ "group_consecutive_ops" \in called
    /\ Len(groups) = 2
    /\ Len(groups[1][2]) = 2
    /\ groups[1][2][1] # groups[1][2][2]
    /\ groups[2][1] = REPLACE

\* The number of entries before the i-th whose kind is in kinds.
EarlierOfKinds(script, i, kinds) ==
    Cardinality({j \in 1..(i - 1) : script[j].op \in kinds})

\* C23: calculate_line_numbers returns one pair per entry; the original
\* number is 1 + the earlier Equal/Delete/Replace entries (None for an
\* Insert), the modified number 1 + the earlier Equal/Insert/Replace
\* entries (None for a Delete); for a script of diff(A,B) an entry at
\* original line p carries A[p-1] and one at modified line q carries
\* B[q-1].
C23_LineNumbers ==
    /\ "calculate_line_numbers" \in called =>
          /\ Len(line_numbers) = Len(any_script)
          /\ \A i \in 1..Len(any_script) :
                /\ line_numbers[i][1] =
                      IF any_script[i].op = INSERT THEN None
                      ELSE 1 + EarlierOfKinds(any_script, i, {EQUAL, DELETE, REPLACE})
                /\ line_numbers[i][2] =
                      IF any_script[i].op = DELETE THEN None
                      ELSE 1 + EarlierOfKinds(any_script, i, {EQUAL, INSERT, REPLACE})
    /\ "line_numbers_of_diff" \in called =>
          /\ Len(diff_lines) = Len(diff_script)
          /\ \A i \in 1..Len(diff_script) :
                /\ diff_lines[i][1] # None =>
                      /\ diff_lines[i][1] \in 1..Len(original)
                      /\ diff_script[i].value = original[diff_lines[i][1]]
                /\ diff_lines[i][2] # None =>
                      /\ diff_lines[i][2] \in 1..Len(modified)
                      /\ diff_script[i].value = modified[diff_lines[i][2]]

C23_Witness ==
    /\ "calculate_line_numbers" \in called
    /\ Len(any_script) = 3
    /\ any_script[3].op = REPLACE
    /\ line_numbers[3] = <<2, 2>>

\* C24: a sub-problem the middle-snake engine resolves directly gets an
\* optimal script: with one side of length 1 whose element occurs in the
\* other side the script has exactly one Equal entry, and when the
\* middle-snake search reports D <= 1 the script has at most D non-Equal
\* entries.
C24_DirectSubproblemOptimal ==
    ("diff_linear_myers" \in called /\ Len(original) >= 1 /\ Len(modified) >= 1) =>
        IF Len(original) = 1 \/ Len(modified) = 1
        THEN SharesElement(original, modified) => EqualCount(linear_script) = 1
        ELSE _find_middle_snake(original, modified)[5] <= 1 =>
                NonEqualCount(linear_script)
                    <= _find_middle_snake(original, modified)[5]

\* The insert/delete edit distance of a and b, from the LCS matrix.
IndelDistance(a, b) == Len(a) + Len(b) - 2 * NaiveLCSLength(a, b)

\* The cost of splitting b at column j when a is split at mid.
SplitCost(a, b, mid, j) ==
    IndelDistance(Slice(a, 0, mid), Slice(b, 0, j))
        + IndelDistance(Slice(a, mid, Len(a)), Slice(b, j, Len(b)))

\* C25: in _hirschberg with len(a) >= 2 and len(b) >= 2 the chosen
\* split_j minimises ed(a[:mid], b[:j]) + ed(a[mid:], b[j:]) over
\* j in 0..len(b), and _score_forward(a[:mid], b)[j] = len(b) -
\* ed(a[:mid], b[:j]) for every j.
C25_SplitMinimises ==
    ("diff_linear" \in called /\ Len(original) >= 2 /\ Len(modified) >= 2) =>
        LET m == Len(modified)
            mid == Len(original) \div 2
            split_j == SplitColumn(original, modified)
            score_left == _score_forward(Slice(original, 0, mid), modified)
        IN  /\ \A j \in 0..m :
                  SplitCost(original, modified, mid, split_j)
                      <= SplitCost(original, modified, mid, j)
            /\ \A j \in 0..m :
                  score_left[j + 1] =
                      m - IndelDistance(Slice(original, 0, mid), Slice(modified, 0, j))

\* C26: for non-empty a and b both middle-snake searches return the same
\* tuple, whose fifth component D is the edit distance
\* len(a) + len(b) - 2 * LCS(a, b); D has the parity of len(a) - len(b),
\* is 2d - 1 when found after a forward half-step and 2d after a backward
\* one, and the return after the depth loop is never reached.  With an
\* empty input find_middle_snake returns D = len(a) + len(b).
C26_SnakeDistance ==
    /\ "_find_middle_snake" \in called =>
          /\ snake.snake[5] = IndelDistance(original, modified)
          /\ (snake.snake[5] - (Len(original) - Len(modified))) % 2 = 0
          /\ snake.found # "fallback"
          /\ snake.found = "forward" => snake.snake[5] = 2 * snake.d - 1
          /\ snake.found = "backward" => snake.snake[5] = 2 * snake.d
    /\ "find_middle_snake" \in called =>
          /\ snake_fn[5] = IndelDistance(original, modified)
          /\ (Len(original) = 0 \/ Len(modified) = 0) =>
                snake_fn[5] = Len(original) + Len(modified)
    /\ {"_find_middle_snake", "find_middle_snake"} \subseteq called =>
          snake_fn = snake.snake

C26_Witness ==
    /\ {"_find_middle_snake", "find_middle_snake"} \subseteq called
    /\ snake.found = "forward"
    /\ snake.d = 2
    /\ snake.snake[3] > snake.snake[1]

\* C27: for len(a) >= 2 and len(b) >= 2 the tuple (x_start, y_start, u,
\* v, D) of _find_middle_snake is a valid split: 0 <= x_start <= u <=
\* len(a), 0 <= y_start <= v <= len(b), u - x_start = v - y_start, the
\* snake runs over equal elements, and ed(a[:x_start], b[:y_start]) +
\* ed(a[u:], b[v:]) = ed(a, b).
C27_SnakeValidSplit ==
    ("_find_middle_snake" \in called /\ Len(original) >= 2 /\ Len(modified) >= 2) =>
        LET x_start == snake.snake[1]
            y_start == snake.snake[2]
            u == snake.snake[3]
            v == snake.snake[4]
        IN  /\ 0 <= x_start /\ x_start <= u /\ u <= Len(original)
            /\ 0 <= y_start /\ y_start <= v /\ v <= Len(modified)
            /\ u - x_start = v - y_start
            /\ \A i \in 0..(u - x_start - 1) :
                  PyIndex(original, x_start + i) = PyIndex(modified, y_start + i)
            /\ IndelDistance(Slice(original, 0, x_start), Slice(modified, 0, y_start))
                  + IndelDistance(Slice(original, u, Len(original)),
                                  Slice(modified, v, Len(modified)))
                  = IndelDistance(original, modified)

C27_Witness ==
    /\ "_find_middle_snake" \in called
    /\ Len(original) >= 2 /\ Len(modified) >= 2
    /\ snake.snake[5] > 1
    /\ snake.snake[3] - snake.snake[1] >= 1
    /\ snake.snake[1] + snake.snake[2] >= 1
    /\ snake.snake[3] < Len(original)

\* C28: for non-empty A and B the forward search stops at the first depth
\* d at which a diagonal reaches (N, M) exactly; d + 1 snapshots have
\* been recorded then, _edit_distance is d, and d is the number of
\* non-Equal entries of the script compute() returns.
C28_StopsAtCorner ==
    /\ "_find_path" \in called =>
          /\ path.stop = <<Len(original), Len(modified)>>
          /\ path.edit_distance = IndelDistance(original, modified)
          /\ Len(path.trace) = path.edit_distance + 1
          /\ ed = path.edit_distance
    /\ ("compute" \in called /\ Len(original) >= 1 /\ Len(modified) >= 1) =>
          /\ ed = NonEqualCount(compute_script)
          /\ Len(trace) = ed + 1

C28_Witness ==
    /\ {"_find_path", "compute"} \subseteq called
    /\ path.edit_distance >= 3
    /\ EqualCount(compute_script) >= 1
    /\ Len(original) # Len(modified)

\* The entries k -> x of a search state other than the sentinel 1 -> 0
\* that do not denote a node of the edit graph of (a, b).
OffGrid(v, a, b) ==
    {k \in DOMAIN v :
        /\ ~(k = 1 /\ v[k] = 0)
        /\ ~(0 <= v[k] /\ v[k] <= Len(a) /\ 0 <= v[k] - k /\ v[k] - k <= Len(b))}

\* C29: every entry k -> x written into the search state (every entry of
\* every trace snapshot and of the state at the return, the sentinel
\* 1 -> 0 aside) denotes a node of the edit graph: 0 <= x <= N and
\* 0 <= x - k <= M.
C29_EntriesOnGrid ==
    "_find_path" \in called =>
        /\ OffGrid(path.v, original, modified) = {}
        /\ \A d \in 1..Len(path.trace) :
              OffGrid(path.trace[d], original, modified) = {}

\* (x_end - x_start) + (y_end - y_start) of a range of _lcs_diff.
RangeSize(r) == (r[2] - r[1]) + (r[4] - r[3])

\* C30: LinearSpaceMyers.compute terminates: every recursive call of
\* _lcs_diff in the D > 1 branch is on a sub-range whose combined length
\* is strictly smaller than its caller's, and the recursion depth is at
\* most len(A) + len(B).
C30_RecursionDecreases ==
    "linear_compute" \in called =>
        /\ \A c \in recursion.calls :
              /\ RangeSize(c.callee) < RangeSize(c.caller)
              /\ 0 <= RangeSize(c.callee)
        /\ recursion.depth <= Len(original) + Len(modified)

C30_Witness ==
    /\ "linear_compute" \in called
    /\ recursion.depth >= 3
    /\ \E c \in recursion.calls :
          RangeSize(c.callee) >= 2 /\ RangeSize(c.caller) > RangeSize(c.callee)

====
